---------------------------- MODULE Spec2Model ----------------------------
(***************************************************************************)
(* Model of the SDN offloading control plane of SDN-Link-Quality-Prediction *)
(*                                                                         *)
(*   src/network/ryu_controller_Lte.py   LTEController (Algorithm 1 loop,  *)
(*                                       packet-in flowlet detection)      *)
(*   src/network/traffic_offloading.py   TrafficOffloader (group table)    *)
(*   src/prediction/channel_predictor.py ChannelPredictor                  *)
(*   src/prediction/quality_classifier.py QualityClassifier                *)
(*                                                                         *)
(* Units.  Time is in milliseconds.  Signal strength is in dBm, delivery   *)
(* ratio and load in percent.  Throughput is in thousandths of Mbps and    *)
(* volume in 1/1600 MB, so that (tput_mbps / 8) * 5 seconds is exactly     *)
(* `tput` volume units.  Application bit rates are in tenths of Mbps.      *)
(*                                                                         *)
(* Time stamps.  The code stores time.time() and only ever reads the       *)
(* difference current_time - stored_time.  The model stores that           *)
(* difference (the age of the stamp), saturated at AgeCap, and Tick ages   *)
(* every stamp.                                                            *)
(***************************************************************************)
EXTENDS Integers, Sequences, FiniteSets, TLC

Min(a, b) == IF a < b THEN a ELSE b
Max(a, b) == IF a > b THEN a ELSE b

\* ------------------------------------------------------------------------
\* Bounds of the model
\* ------------------------------------------------------------------------
MaxPackets == 4        \* packets handled per flow
MaxChanges == 1        \* telemetry posts that differ from the one before
MaxCtlPackets == 2     \* packets handled while the control loop is modelled
MaxCalls == 3          \* calls of TrafficOffloader.execute_offload
MaxConfirms == 3       \* requests handled by WiFiRestController.offload_confirm
MaxTelChanges == 3     \* ... when the telemetry is modelled alone

\* ------------------------------------------------------------------------
\* Program constants
\* ------------------------------------------------------------------------
DeltaMs == 50          \* flowlet threshold: gap > 0.05 s
AgeCap == DeltaMs + 10 \* ages of time stamps saturate here, above DeltaMs
DefaultBitrate == 50   \* VIDEO_BITRATE_MBPS = 5.0

NoAge == -1            \* "flow_key not in self.packet_times"

Dpids == {1, 2}        \* switches that connect; the offloader is made for 1

Flows == {"f1", "f2"}  \* flow keys (ip_src, ip_dst) of UDP/IPv4 packets

\* identify_application: min_rate_mbps of the profile matching the ports
\* of the flow (f1 is the video flow on udp 5001, f2 matches no profile).
identify_application(f) == IF f = "f1" THEN 50 ELSE 20

\* eth.src of the packets of a flow (learned into mac_to_port)
EthSrc(f) == IF f = "f1" THEN "mac_srv" ELSE "mac_sta"

FineTicks == {5, 10, 60}

\* ------------------------------------------------------------------------
\* Program constants of the control loop
\* ------------------------------------------------------------------------
WindowLen == 30        \* deque(maxlen=30) and the warm-up test
T_c == 15              \* deadline threshold, seconds
V_total == 240000      \* 150.0 MB
MinWifiVolume == 1600  \* V_WiFi < 1.0 MB abandons the offload
FallbackLoad == 30     \* _query_wifi_load default 0.30, in percent
ColdStartTput == 5000  \* predict_throughput cold start, 5.0 Mbps
UeMac == "00:00:00:00:00:02"
UeToken == "TOKEN_000000000002"

\* Telemetry the topology posts: <<rssi dBm, pdr percent>>
LteSamples == {<<-65, 93>>, <<-60, 55>>}
WifiSamples == {<<-70, 90>>}
\* ... and what any client of POST /ue_metrics can send besides
TelLteSamples == LteSamples \cup {<<-120, 150>>}
\* ... and the telemetry of a UE at the cell edge that receives nothing
LiveLteSamples == LteSamples \cup {<<-95, 0>>}

\* Answers of the remote WiFi controller, as _query_wifi_load and
\* _exchange_credentials see them
Loads == {60}
\* ... and whatever a 200 answer to GET /wifi_load can carry as 'load'
QueryLoads == {-50, 0, 60, 100, 150}
LoadAnswers == {"ok", "timeout", "status"}   \* 200; an exception; not 200
ConfirmReplies == {"ok", "rejected", "error"}

\* Arguments of TrafficOffloader.execute_offload: the WiFi load in percent
\* and the two throughputs
OffLoads == {0, 50, 80}
OffTputs == {0, 29, 71}
OverloadPct == 75      \* wifi_load >= 0.75
SleepMs == 100         \* time.sleep(0.1) between the delete and the add
OffTicks == {30, 60}   \* times that pass between two calls

\* int(time.time() * 1000) % 100000
FlowletIds == {4711}
NoFlowlet == -1        \* flowlet_id = None

\* ------------------------------------------------------------------------
\* WiFiController (ryu_controller_Wifi.py)
\* ------------------------------------------------------------------------
wifi_capacity_mbps == 54000    \* 54.0 Mbps

NoToken == ""                  \* no token: None, or the '' of a missing field

\* self.valid_tokens.get(ue_mac, None)
valid_tokens(mac) ==
    CASE mac = "00:00:00:00:00:02" -> "TOKEN_000000000002"
      [] mac = "00:00:00:00:00:03" -> "TOKEN_000000000003"
      [] mac = "00:00:00:00:00:04" -> "TOKEN_000000000004"
      [] OTHER -> NoToken

\* Fields of the requests posted to /offload_confirm: ue_mac (sta1, sta2, a
\* stranger), auth_token (absent: ''), requested_bw (5.0 is what the LTE
\* controller asks for)
WifiMacs == {"00:00:00:00:00:02", "00:00:00:00:00:03", "00:00:00:00:00:99"}
WifiTokens == {"TOKEN_000000000002", "TOKEN_000000000003",
               "TOKEN_000000000099", NoToken}
RequestedBw == {5000, 60000}
\* ... and a requested_bw that is no number (null, a string)
NoBw == -1

WifiTicks == {30}

\* Flow statistics of the WiFi switch: the flows with priority > 0 that
\* carried packets (eth_src, eth_dst), in the order of the reply; the byte
\* counts the switch reports for them; and the time since the reply
\* handled before, in ms (_load_monitoring_loop asks every 2 s; a reply
\* within 0.5 s is skipped).  6.75 MB in 2 s are 27 Mbps.
WifiFlows == {1, 2}
ByteCounts == {6750000, 13500000}
StatsDeltas == {400, 1000, 2000}
\* Arguments of the calls of classify and predict_throughput: signal
\* strengths and delivery ratios around the thresholds, series of 0, 29
\* and 30 samples whose last sample is the argument and whose earlier
\* samples are those of a dead link
PureRssi == {-100, -91, -90, -88, -87, -86, -80, -76, -75, -74, -60, -40}
PurePdr == {0, 50, 74, 75, 76, 80, 84, 85, 87, 88, 93, 100}
PureLens == {0, 29, 30}
OldRssi == -100
OldPdr == 0
\* ... or those of a perfect link
PureOlds == {<<OldRssi, OldPdr>>, <<-40, 100>>}

NoStat == -1           \* the flow is not in the reply
MinStatsDelta == 500   \* if time_delta < 0.5: return

\* What the scorer of predict_throughput yields: a class of the BLSTM
\* model, or the threshold heuristic (model absent or raising)
ScorerOut == {"Bad", "Intermediate", "Good", "Fallback"}
\* ... with the model raising an error told apart from the model absent
PureScores == ScorerOut \cup {"Raises"}
\* ... and the part of them drawn while the control loop is modelled
CtlScores == {"Good", "Fallback"}

\* ------------------------------------------------------------------------
\* QualityClassifier.classify (thresholds of QualityClassifier.__init__)
\* ------------------------------------------------------------------------
rssi_good_threshold == -75
rssi_bad_threshold == -87
pdr_good_threshold == 85
pdr_bad_threshold == 75

classifyBadBoth(rssi, pdr) ==
    IF pdr <= pdr_bad_threshold /\ rssi <= rssi_bad_threshold THEN "Bad"
    ELSE IF pdr >= pdr_good_threshold /\ rssi >= rssi_good_threshold
         THEN "Good"
         ELSE "Intermediate"
classify(rssi, pdr) ==
    IF pdr <= pdr_bad_threshold \/ rssi <= rssi_bad_threshold THEN "Bad"
    ELSE IF pdr >= pdr_good_threshold /\ rssi >= rssi_good_threshold
         THEN "Good"
         ELSE "Intermediate"

\* classify_link(rssi, pdr), which the controller imports from
\* quality_classifier: the label of the pair (its confidence is only logged)
classify_link(rssi, pdr) == classify(rssi, pdr)

\* ------------------------------------------------------------------------
\* ChannelPredictor
\* ------------------------------------------------------------------------
\* _fallback_prediction: <<throughput, label>>
fallback_prediction(rssi, pdr) ==
    IF rssi >= -74 /\ pdr >= 88 THEN <<8000, "Good">>
    ELSE IF rssi <= -88 \/ pdr <= 76 THEN <<2000, "Bad">>
         ELSE <<5000, "Intermediate">>

\* throughput_map / quality_map of the model's class
model_prediction(class) ==
    CASE class = "Bad" -> <<2000, "Bad">>
      [] class = "Intermediate" -> <<5000, "Intermediate">>
      [] OTHER -> <<8000, "Good">>

\* Lines 111-137: _fallback_prediction scores when the model is not loaded
\* (the else branch) and when the model raises (the except clause)
UsesFallbackAbsentOnly(score) == score = "Fallback"
UsesFallback(score) == score \in {"Fallback", "Raises"}

\* if len(rssi_series) < 30 or len(pdr_series) < 30
ColdStartBoth(rssi_series, pdr_series) ==
    Len(rssi_series) < WindowLen /\ Len(pdr_series) < WindowLen
ColdStart(rssi_series, pdr_series) ==
    Len(rssi_series) < WindowLen \/ Len(pdr_series) < WindowLen

\* Lines 139-151: the video quality thresholds applied to what the scorer
\* gave, base = <<predicted_tput, quality_label>>
video_adjustKeep(base, last_rssi, last_pdr) ==
    IF last_rssi >= -90 /\ last_pdr >= 75
    THEN IF last_rssi >= -74 /\ last_pdr >= 88
         THEN <<(base[1] * 12) \div 10, "Good">>
         ELSE <<base[1], base[2]>>
    ELSE <<(base[1] * 7) \div 10, "Bad">>
video_adjust(base, last_rssi, last_pdr) ==
    IF last_rssi >= -90 /\ last_pdr >= 75
    THEN IF last_rssi >= -74 /\ last_pdr >= 88
         THEN <<(base[1] * 12) \div 10, "Good">>
         ELSE <<base[1], "Intermediate">>
    ELSE <<(base[1] * 7) \div 10, "Bad">>

\* predict_throughput(interface, rssi_series, pdr_series) when the scorer
\* yields `score`: <<predicted_tput, quality_label>>
predict_throughput(rssi_series, pdr_series, score) ==
    IF ColdStart(rssi_series, pdr_series)
    THEN <<ColdStartTput, "Intermediate">>
    ELSE LET last_rssi == rssi_series[Len(rssi_series)]
             last_pdr == pdr_series[Len(pdr_series)]
             base == IF UsesFallback(score)
                     THEN fallback_prediction(last_rssi, last_pdr)
                     ELSE model_prediction(score)
             adj == video_adjust(base, last_rssi, last_pdr)
         IN  <<Max(1000, Min(20000, adj[1])), adj[2]>>

\* ------------------------------------------------------------------------
\* LTEController: capacity model and Algorithm 1 arithmetic
\* ------------------------------------------------------------------------
\* R_user of _calculate_lte_throughput, to a thousandth of a Mbps:
\*   0.8 * 10 * log2(1 + max(0.01, 10 ^ ((rssi - 10 log10(1200) + 104) / 10)))
\* tabulated for the signal strengths of LteSamples and the default -60
R_user(rssi) ==
    CASE rssi = -95 -> 115
      [] rssi = -65 -> 23437
      [] rssi = -60 -> 35640

\* _calculate_lte_throughput: max(2.0, min(20.0, R_user * pdr))
calculate_lte_throughputNoFloor(rssi, pdr) ==
    Min(20000, (R_user(rssi) * pdr) \div 100)
calculate_lte_throughput(rssi, pdr) ==
    Max(2000, Min(20000, (R_user(rssi) * pdr) \div 100))

\* T_LTE < T_c for _calculate_T_LTE(volume, rate) = volume / (rate / 8):
\* (v/1600) / (r/8000) < T_c  <=>  5 v < T_c r   (999.0 when the rate is 0)
T_LTE_below_Tc(volume, rate) ==
    IF rate > 0 THEN 5 * volume < T_c * rate ELSE FALSE

\* Python round(): to the nearest integer, ties to even, of n / d
Round(n, d) ==
    LET q == n \div d
        r == n % d
    IN  IF 2 * r < d THEN q
        ELSE IF 2 * r > d THEN q + 1
             ELSE IF q % 2 = 0 THEN q ELSE q + 1

\* alpha of _execute_offload as the fraction <<numerator, denominator>>:
\* (pred_wifi / total) * (1 - wifi_load), clamped to [0, 1]
AlphaNoClamp(wifi_load, pred_lte, pred_wifi) ==
    LET total == pred_lte + pred_wifi
    IN  IF total <= 0 THEN <<0, 1>>
        ELSE <<pred_wifi * (100 - wifi_load), total * 100>>
Alpha(wifi_load, pred_lte, pred_wifi) ==
    LET total == pred_lte + pred_wifi
        num == pred_wifi * (100 - wifi_load)
        den == total * 100
    IN  IF total <= 0 THEN <<0, 1>>
        ELSE IF num <= 0 THEN <<0, 1>>
             ELSE IF num >= den THEN <<1, 1>>
                  ELSE <<num, den>>

AlphaZero == <<0, 1>>

\* V_LTE of _execute_offload (Equations 8, 9), with T_LTE recomputed from
\* the predicted LTE throughput:
\*   T' = T_c - T_LTE > 0 : (pred/8) * T' = (pred/8) * T_c - V
\*   otherwise            : (pred/8) * T_c
V_LTE_of(volume, pred_lte) ==
    IF T_LTE_below_Tc(volume, pred_lte)
    THEN (T_c * pred_lte) \div 5 - volume
    ELSE (T_c * pred_lte) \div 5

\* V_WiFi (Equation 10)
V_WiFi_of(volume, pred_lte) == Max(0, volume - V_LTE_of(volume, pred_lte))

\* The gap sequence of the flowlet example and its progress monitor
ExampleGaps == <<0, 10, 60, 5>>


VARIABLES
    \* ---- LTEController: packet path
    mac_to_port,        \* set of learned source MACs (dpid 1)
    monitored_flows,    \* set of flow keys
    flow_detected,      \* BOOLEAN
    flow_stats,         \* flow key -> byte_count, -1 when absent
    packet_counters,    \* flow key -> Nat, -1 when absent
    flowlet_counters,   \* flow key -> Nat, -1 when absent
    packet_times,       \* flow key -> age of the stamp, NoAge when absent
    VIDEO_BITRATE_MBPS,
    ex_pos,             \* monitor: prefix of ExampleGaps matched on f1, -1 off
    ex_ids,             \* monitor: flowlet ids of the matched packets
    \* ---- LTEController: telemetry and Algorithm 1
    model_loaded,       \* ChannelPredictor.model_loaded
    lte_rssi_window, lte_pdr_window, wifi_rssi_window, wifi_pdr_window,
    current_rssi_lte, current_pdr_lte, current_rssi_wifi, current_pdr_wifi,
    changes,            \* telemetry posts that differed from the one before
    V_remaining,
    loop_pc,            \* where _algorithm_1_loop stands
    cyc,                \* locals of the cycle in progress
    authenticated_ues,  \* MACs in self.authenticated_ues
    datapaths,          \* dpids in self.datapaths, in insertion order
    offloader,          \* self.offloader is not None
    \* ---- TrafficOffloader and the switch
    group_installed,    \* offloader.group_installed
    last_packet_time,   \* offloader: flow key -> age of the last split
    dp_group,           \* group 1 of the switch: NoGroup or its weights
    dp_rule,            \* the switch holds the flow rule to group 1
    dp_lte,             \* offloader.dp_lte is not None
    off_pc,             \* where execute_offload stands
    off_call,           \* arguments and locals of the call, its return value
    off_tx,             \* OpenFlow messages sent by the call
    call_age,           \* time since execute_offload last returned
    calls,              \* calls of execute_offload made
    \* ---- what a cycle did
    last_record,        \* row written by _log_decision in the cycle, and
                        \* what the cycle came to
    prev_neg,           \* answer to the negotiation of the cycle before
    cyc_neg,            \* POSTs to /offload_confirm sent since the cycle began
    cyc_tx,             \* OpenFlow messages sent since the cycle began
    \* ---- WiFiController
    wifi_authenticated_ues, \* ue_mac -> token and age of auth_time
    current_load,           \* percent
    total_throughput_mbps,
    wifi_resp,              \* the last answer of offload_confirm, with the
                            \* request it answers
    confirms,               \* requests handled by offload_confirm
    wifi_flow_stats,        \* flow key -> byte_count of the last reply
    \* ---- the pure functions
    evaluated               \* the last call of classify or
                            \* predict_throughput, with what it returned

pktVars == <<mac_to_port, monitored_flows, flow_detected, flow_stats,
             packet_counters, flowlet_counters, packet_times,
             VIDEO_BITRATE_MBPS, ex_pos, ex_ids>>

telVars == <<lte_rssi_window, lte_pdr_window, wifi_rssi_window,
             wifi_pdr_window, current_rssi_lte, current_pdr_lte,
             current_rssi_wifi, current_pdr_wifi, changes>>

loopVars == <<V_remaining, loop_pc, cyc, authenticated_ues, last_record,
              prev_neg, cyc_neg, cyc_tx>>

offVars == <<group_installed, last_packet_time, dp_group, dp_rule>>

srcVars == <<dp_lte, off_pc, off_call, off_tx, calls>>

wifiVars == <<wifi_authenticated_ues, current_load, total_throughput_mbps,
              wifi_resp, confirms, wifi_flow_stats>>

vars == <<pktVars, telVars, loopVars, offVars, srcVars, call_age,
          model_loaded, datapaths, offloader, wifiVars, evaluated>>

NoGroup == [lte |-> 0, wifi |-> 0]
NoCyc == [wifi_load |-> 0, load_ok |-> FALSE, lte_tput |-> 0, pred_lte |-> 0, pred_wifi |-> 0,
          quality |-> "", alpha |-> AlphaZero, V_LTE |-> 0, V_WiFi |-> 0]
NoRecord == [decision |-> "", alpha |-> AlphaZero, V_LTE |-> 0, V_WiFi |-> 0,
             flowlet_id |-> NoFlowlet, quality |-> "", lte_tput |-> 0,
             V_before |-> 0, want_wifi |-> 0, neg |-> "none",
             wifi_load |-> 0, load_ok |-> FALSE, outcome |-> "none"]

\* ------------------------------------------------------------------------
\* LTEController.__init__ (with ChannelPredictor.__init__)
\* ------------------------------------------------------------------------
InitPacket ==
    /\ mac_to_port = {}
    /\ monitored_flows = {}
    /\ flow_detected = FALSE
    /\ flow_stats = [f \in Flows |-> -1]
    /\ packet_counters = [f \in Flows |-> -1]
    /\ flowlet_counters = [f \in Flows |-> -1]
    /\ packet_times = [f \in Flows |-> NoAge]
    /\ VIDEO_BITRATE_MBPS = DefaultBitrate
    /\ ex_pos = 0
    /\ ex_ids = <<>>

InitController ==
    /\ model_loaded \in BOOLEAN
    /\ lte_rssi_window = <<>>
    /\ lte_pdr_window = <<>>
    /\ wifi_rssi_window = <<>>
    /\ wifi_pdr_window = <<>>
    /\ current_rssi_lte = -60
    /\ current_pdr_lte = 95
    /\ current_rssi_wifi = -70
    /\ current_pdr_wifi = 90
    /\ changes = 0
    /\ V_remaining = V_total
    /\ loop_pc = "wait_flow"
    /\ cyc = NoCyc
    /\ authenticated_ues = {}
    /\ datapaths = <<>>
    /\ offloader = FALSE
    /\ last_record = NoRecord
    /\ prev_neg = "none"
    /\ cyc_neg = 0
    /\ cyc_tx = <<>>

InitOffloader ==
    /\ group_installed = FALSE
    /\ last_packet_time = [f \in Flows |-> NoAge]
    /\ dp_group = NoGroup
    /\ dp_rule = FALSE

\* TrafficOffloader.__init__(datapath_lte, datapath_wifi)
NoCall == [gap |-> NoAge, same |-> FALSE, args |-> <<>>,
           had_group |-> FALSE, group_before |-> NoGroup,
           lte |-> 0, wifi |-> 0, add_failed |-> FALSE, ret |-> "none"]

InitTrafficOffloader(with_dp) ==
    /\ dp_lte = with_dp
    /\ off_pc = "idle"
    /\ off_call = NoCall
    /\ off_tx = <<>>
    /\ call_age = NoAge
    /\ calls = 0

\* No call of a pure function yet
NoEval == [fn |-> "", rssi_series |-> <<>>, pdr_series |-> <<>>,
           score |-> "", scored |-> FALSE, rssi |-> 0, pdr |-> 0,
           done |-> FALSE, tput |-> 0, label |-> ""]

\* WiFiController.__init__
NoAuth == [token |-> NoToken, auth_time |-> NoAge]
NoResp == [status |-> 0, success |-> FALSE, allocated_bw |-> 0,
           error |-> "", well_formed |-> FALSE, ue_mac |-> "",
           auth_token |-> NoToken, requested_bw |-> 0, load |-> 0,
           was_auth |-> FALSE]

InitWifi ==
    /\ wifi_authenticated_ues = [m \in WifiMacs |-> NoAuth]
    /\ current_load = 0
    /\ total_throughput_mbps = 0
    /\ wifi_resp = NoResp
    /\ confirms = 0
    /\ wifi_flow_stats = [k \in WifiFlows |-> 0]

\* The controller hands its datapath to the offloader it makes
Init ==
    InitPacket /\ InitController /\ InitOffloader
      /\ InitTrafficOffloader(TRUE) /\ InitWifi /\ evaluated = NoEval

\* ------------------------------------------------------------------------
\* Time
\* ------------------------------------------------------------------------
Aged(a, d) == IF a = NoAge THEN NoAge ELSE Min(a + d, AgeCap)

\* auth_time of the UEs the WiFi controller has authenticated, d ms on
AgedUes(d) ==
    [m \in WifiMacs |->
        [wifi_authenticated_ues[m] EXCEPT
            !.auth_time = Aged(wifi_authenticated_ues[m].auth_time, d)]]

\* d milliseconds pass
Tick(d) ==
    /\ packet_times' = [f \in Flows |-> Aged(packet_times[f], d)]
    /\ last_packet_time' = [f \in Flows |-> Aged(last_packet_time[f], d)]
    /\ call_age' = Aged(call_age, d)
    /\ wifi_authenticated_ues' = AgedUes(d)
    /\ UNCHANGED <<current_load, total_throughput_mbps, wifi_resp, confirms,
                   wifi_flow_stats, evaluated>>
    /\ UNCHANGED <<mac_to_port, monitored_flows, flow_detected, flow_stats,
                   packet_counters, flowlet_counters, VIDEO_BITRATE_MBPS,
                   ex_pos, ex_ids>>
    /\ UNCHANGED <<telVars, loopVars, model_loaded, datapaths, offloader,
                   group_installed, dp_group, dp_rule, srcVars>>

\* ------------------------------------------------------------------------
\* LTEController.packet_in_handler, for a UDP/IPv4 packet of flow f
\* ------------------------------------------------------------------------
\* is_new_flowlet = (gap > 0.05)
IsNewFlowletGe(gap) == gap >= DeltaMs
IsNewFlowlet(gap) == gap > DeltaMs

\* gap_ms of the packet: 0.0 for the first packet of a flow
GapOf(f) == IF packet_times[f] = NoAge THEN 0 ELSE packet_times[f]

NewFlowletOf(f) ==
    IF packet_times[f] = NoAge THEN TRUE ELSE IsNewFlowlet(packet_times[f])

\* The counters of f once the detection block (lines 233-251) has run
DetectedCounter(c, f) == IF f \in monitored_flows THEN c[f] ELSE 0

PacketIn(f) ==
    /\ datapaths # <<>>
    /\ DetectedCounter(packet_counters, f) < MaxPackets
    /\ mac_to_port' = mac_to_port \cup {EthSrc(f)}
    /\ monitored_flows' = monitored_flows \cup {f}
    /\ flow_detected' = TRUE
    /\ VIDEO_BITRATE_MBPS' =
          IF f \in monitored_flows THEN VIDEO_BITRATE_MBPS
          ELSE identify_application(f)
    /\ flow_stats' =
          IF f \in monitored_flows THEN flow_stats
          ELSE [flow_stats EXCEPT ![f] = 0]
    /\ packet_counters' =
          [packet_counters EXCEPT ![f] = DetectedCounter(packet_counters, f) + 1]
    /\ packet_times' = [packet_times EXCEPT ![f] = 0]
    /\ flowlet_counters' =
          [flowlet_counters EXCEPT ![f] =
              DetectedCounter(flowlet_counters, f)
                + (IF NewFlowletOf(f) THEN 1 ELSE 0)]
    \* monitor of the example gap sequence on flow f1
    /\ IF f = "f1" /\ ex_pos >= 0 /\ ex_pos < Len(ExampleGaps)
          /\ GapOf(f) = ExampleGaps[ex_pos + 1]
          /\ (ex_pos = 0 <=> packet_times[f] = NoAge)
       THEN /\ ex_pos' = ex_pos + 1
            /\ ex_ids' = Append(ex_ids, flowlet_counters'[f])
       ELSE IF f = "f1"
            THEN ex_pos' = -1 /\ ex_ids' = <<>>
            ELSE UNCHANGED <<ex_pos, ex_ids>>
    /\ UNCHANGED <<telVars, loopVars, offVars, model_loaded, datapaths,
                   offloader, srcVars, call_age>>
    /\ UNCHANGED <<wifiVars, evaluated>>

\* ------------------------------------------------------------------------
\* LTEController.switch_features_handler (the switch with dpid 1 connects)
\* ------------------------------------------------------------------------
SwitchFeaturesHandler(dpid) ==
    /\ \A i \in DOMAIN datapaths : datapaths[i] # dpid
    /\ datapaths' = Append(datapaths, dpid)
    /\ offloader' = (offloader \/ dpid = 1)
    /\ UNCHANGED <<pktVars, telVars, loopVars, offVars, model_loaded,
                   srcVars, call_age>>
    /\ UNCHANGED <<wifiVars, evaluated>>

\* ------------------------------------------------------------------------
\* LteRestController.post_ue_metrics
\* ------------------------------------------------------------------------
\* deque(maxlen=30).append
PushKeep(w, x) == IF Len(w) < WindowLen THEN Append(w, x) ELSE w
Push(w, x) == IF Len(w) < WindowLen THEN Append(w, x)
              ELSE Append(Tail(w), x)

\* A post of the samples l (LTE) and w (WiFi); at most max_changes posts
\* differ from the post before them
PostMetrics(l, w, max_changes) ==
    /\ \/ changes < max_changes
       \/ /\ Len(lte_rssi_window) > 0
          /\ l = <<current_rssi_lte, current_pdr_lte>>
          /\ w = <<current_rssi_wifi, current_pdr_wifi>>
    /\ changes' =
          IF /\ Len(lte_rssi_window) > 0
             /\ l = <<current_rssi_lte, current_pdr_lte>>
             /\ w = <<current_rssi_wifi, current_pdr_wifi>>
          THEN changes ELSE changes + 1
    /\ current_rssi_lte' = l[1]
    /\ current_pdr_lte' = l[2]
    /\ current_rssi_wifi' = w[1]
    /\ current_pdr_wifi' = w[2]
    /\ lte_rssi_window' = Push(lte_rssi_window, l[1])
    /\ lte_pdr_window' = Push(lte_pdr_window, l[2])
    /\ wifi_rssi_window' = Push(wifi_rssi_window, w[1])
    /\ wifi_pdr_window' = Push(wifi_pdr_window, w[2])
    /\ UNCHANGED <<pktVars, loopVars, offVars, model_loaded, datapaths,
                   offloader, srcVars, call_age>>
    /\ UNCHANGED <<wifiVars, evaluated>>

PostUeMetrics(l, w) == PostMetrics(l, w, MaxChanges)

\* ------------------------------------------------------------------------
\* LTEController._algorithm_1_loop
\* ------------------------------------------------------------------------
\* while not self.flow_detected: hub.sleep(2)
LoopDetect ==
    /\ loop_pc = "wait_flow"
    /\ flow_detected
    /\ loop_pc' = "sleep"
    /\ UNCHANGED <<V_remaining, cyc, authenticated_ues, last_record,
                   prev_neg, cyc_neg, cyc_tx>>
    /\ UNCHANGED <<pktVars, telVars, offVars, model_loaded, datapaths,
                   offloader, srcVars, call_age>>
    /\ UNCHANGED <<wifiVars, evaluated>>

\* if len(self.lte_rssi_window) >= 30
WarmedUpAny(n) == n >= 1
WarmedUp(n) == n >= WindowLen

\* hub.sleep(5) returns: five seconds have passed (every time stamp is now
\* older than AgeCap) and the cycle runs up to its first blocking call, the
\* GET of _query_wifi_load; a cycle before warm-up goes back to sleep.
CycleBegin ==
    /\ loop_pc = "sleep"
    /\ packet_times' = [f \in Flows |-> Aged(packet_times[f], 5000)]
    /\ last_packet_time' = [f \in Flows |-> Aged(last_packet_time[f], 5000)]
    /\ call_age' = Aged(call_age, 5000)
    /\ IF WarmedUp(Len(lte_rssi_window))
       THEN /\ loop_pc' = "load"
            /\ prev_neg' = last_record.neg
            /\ last_record' = NoRecord
            /\ cyc_neg' = 0
            /\ cyc_tx' = <<>>
       ELSE \* the "[WARMUP] Collecting samples" branch: no row is written
            /\ loop_pc' = "sleep"
            /\ last_record' = [NoRecord EXCEPT !.outcome = "warmup"]
            /\ UNCHANGED <<prev_neg, cyc_neg, cyc_tx>>
    /\ UNCHANGED <<V_remaining, cyc, authenticated_ues>>
    /\ UNCHANGED <<mac_to_port, monitored_flows, flow_detected, flow_stats,
                   packet_counters, flowlet_counters, VIDEO_BITRATE_MBPS,
                   ex_pos, ex_ids>>
    /\ UNCHANGED <<telVars, model_loaded, datapaths, offloader,
                   group_installed, dp_group, dp_rule, srcVars>>
    /\ wifi_authenticated_ues' = AgedUes(5000)
    /\ UNCHANGED <<current_load, total_throughput_mbps, wifi_resp, confirms,
                   wifi_flow_stats, evaluated>>

\* Lines 475-489: account the volume, write the record, test completion.
\* res = <<alpha, V_LTE, V_WiFi, flowlet_id>> is what the decision yielded;
\* the record also keeps what the cycle decided on (the volume it started
\* with, the LTE throughput, the class, the V_WiFi it computed), the answer
\* to its negotiation request and the branch it ended in.
\* transmitted_MB = (lte_tput_mbps / 8.0) * 5, in volume units
transmitted_MB(lte_tput_mbps) == lte_tput_mbps

\* self.V_remaining = max(0.0, self.V_remaining - transmitted_MB)
V_afterNoFloor(volume, transmitted) == volume - transmitted
V_after(volume, transmitted) == Max(0, volume - transmitted)

\* if self.V_remaining <= 0.0: break
NextPcStop(volume) == "done"
NextPcOn(volume) == "sleep"
NextPc(volume) == IF volume <= 0 THEN "done" ELSE "sleep"

Finish(c, decision, res, neg, outcome) ==
    /\ V_remaining' = V_after(V_remaining, transmitted_MB(c.lte_tput))
    /\ last_record' = [decision |-> decision, alpha |-> res[1],
                       V_LTE |-> res[2], V_WiFi |-> res[3],
                       flowlet_id |-> res[4], quality |-> c.quality,
                       lte_tput |-> c.lte_tput, V_before |-> V_remaining,
                       want_wifi |-> c.V_WiFi, neg |-> neg,
                       wifi_load |-> c.wifi_load, load_ok |-> c.load_ok,
                       outcome |-> outcome]
    /\ loop_pc' = NextPc(V_remaining')
    /\ cyc' = NoCyc

\* authenticate_ue(ue_mac, credentials): the token derived from the MAC
\* expected_token = f"TOKEN_{ue_mac.replace(':', '').upper()}"
expected_token(mac) ==
    CASE mac = "00:00:00:00:00:02" -> "TOKEN_000000000002"
      [] mac = "00:00:00:00:00:03" -> "TOKEN_000000000003"
      [] mac = "00:00:00:00:00:04" -> "TOKEN_000000000004"
      [] mac = "00:00:00:00:00:99" -> "TOKEN_000000000099"
      [] OTHER -> "TOKEN_other"

\* The decision of lines 457-473: LTE only iff T_LTE < T_c and not Bad
StayLteOnlyOr(volume, lte_tput, quality) ==
    T_LTE_below_Tc(volume, lte_tput) \/ quality # "Bad"
StayLteOnly(volume, lte_tput, quality) ==
    T_LTE_below_Tc(volume, lte_tput) /\ quality # "Bad"

\* if V_WiFi < 1.0: abandon
OffloadWorthAlways(v_wifi) == TRUE
OffloadWorth(v_wifi) == ~(v_wifi < MinWifiVolume)

\* _query_wifi_load: the load of a 200 answer, else the default 0.30
query_wifi_loadZero(answer, load) == IF answer = "ok" THEN load ELSE 0
query_wifi_load(answer, load) ==
    IF answer = "ok" THEN load ELSE FallbackLoad

\* The answer to GET /wifi_load arrives (ok: status 200 with a load; else a
\* timeout, an error or another status: the default 0.30).  The cycle runs
\* on to its next blocking call, the POST of _exchange_credentials, or to
\* its end.
LoadReply(answer, load, score_lte, score_wifi) ==
    /\ loop_pc = "load"
    /\ model_loaded \/ (score_lte = "Fallback" /\ score_wifi = "Fallback")
    /\ LET wifi_load == query_wifi_load(answer, load)
           lte_tput == calculate_lte_throughput(current_rssi_lte,
                                                current_pdr_lte)
           p_lte == predict_throughput(lte_rssi_window, lte_pdr_window,
                                       score_lte)
           p_wifi == predict_throughput(wifi_rssi_window, wifi_pdr_window,
                                        score_wifi)
           quality == classify_link(current_rssi_lte, current_pdr_lte)
           alpha == Alpha(wifi_load, p_lte[1], p_wifi[1])
           v_lte == V_LTE_of(V_remaining, p_lte[1])
           v_wifi == V_WiFi_of(V_remaining, p_lte[1])
           c == [wifi_load |-> wifi_load, load_ok |-> answer = "ok",
                 lte_tput |-> lte_tput,
                 pred_lte |-> p_lte[1], pred_wifi |-> p_wifi[1],
                 quality |-> quality, alpha |-> alpha,
                 V_LTE |-> v_lte, V_WiFi |-> v_wifi]
       IN  IF StayLteOnly(V_remaining, lte_tput, quality)
           THEN /\ Finish([c EXCEPT !.V_WiFi = 0], "LTE_ONLY",
                          <<AlphaZero, 0, 0, NoFlowlet>>, "none",
                          "lte_only")
                /\ UNCHANGED <<authenticated_ues, cyc_neg>>
           ELSE IF ~OffloadWorth(v_wifi)
                THEN /\ Finish(c, "OFFLOAD",
                               <<AlphaZero, v_lte, 0, NoFlowlet>>,
                               "none", "abandoned")
                     /\ UNCHANGED <<authenticated_ues, cyc_neg>>
                ELSE \* _exchange_credentials up to requests.post
                     /\ authenticated_ues' =
                           IF UeToken = expected_token(UeMac)
                           THEN authenticated_ues \cup {UeMac}
                           ELSE authenticated_ues
                     /\ IF UeMac \in authenticated_ues'
                        THEN /\ cyc_neg' = cyc_neg + 1
                             /\ loop_pc' = "neg"
                             /\ cyc' = c
                             /\ UNCHANGED <<V_remaining, last_record>>
                        ELSE /\ Finish(c, "OFFLOAD",
                                       <<AlphaZero, v_lte, 0, NoFlowlet>>,
                                       "none", "auth_failed")
                             /\ UNCHANGED cyc_neg
    /\ UNCHANGED <<prev_neg, cyc_tx>>
    /\ UNCHANGED <<pktVars, telVars, offVars, model_loaded, datapaths,
                   offloader, srcVars, call_age>>
    /\ UNCHANGED <<wifiVars, evaluated>>

\* Bucket weights of the group for a split ratio alpha
wifi_weight(alpha) == Max(1, Round(100 * alpha[1], alpha[2]))
lte_weight(alpha) == Max(1, Round(100 * (alpha[2] - alpha[1]), alpha[2]))

\* _exchange_credentials returns True: status 200 and result['success']
NegotiationOkAny(reply) == reply # "error"
NegotiationOk(reply) == reply = "ok"

\* An OpenFlow message as the switch dp receives it, and the time since
\* the last packet of the flow when it is sent
Msg(cmd, dp, f, lw, ww) ==
    [cmd |-> cmd, dp |-> dp, flow |-> f, lte |-> lw, wifi |-> ww,
     gap |-> packet_times[f]]

\* The flow that the rule of _install_group_flow_rule matches: the video
\* flow to 10.0.0.2, udp port 5001
RuleFlow == "f1"

\* Lines 577-587: the group install or update, then the rule to the group
UpdateMsgsRuleFirst(group_msgs, rule_msg) == <<rule_msg>> \o group_msgs
UpdateMsgs(group_msgs, rule_msg) == group_msgs \o <<rule_msg>>

\* offloader.install_or_update_group(flow_key, alpha, ...), on the switch
\* with dpid 1: what it returns, the group messages it sends, and the group
\* table and the installed flag after it.  A call inside a flowlet with the
\* table installed sends nothing and succeeds; else the table is added, or
\* modified in place once installed; tx_ok is whether that transaction
\* succeeds.
install_or_update_group(f, alpha, tx_ok) ==
    LET boundary == \/ last_packet_time[f] = NoAge
                    \/ last_packet_time[f] > DeltaMs
        lw == lte_weight(alpha)
        ww == wifi_weight(alpha)
        cmd == IF group_installed THEN "modify" ELSE "add"
    IN  IF ~boundary /\ group_installed
        THEN [success |-> TRUE, msgs |-> <<>>,
              group |-> dp_group, installed |-> group_installed]
        ELSE IF tx_ok
             THEN [success |-> TRUE, msgs |-> <<Msg(cmd, 1, f, lw, ww)>>,
                   group |-> [lte |-> lw, wifi |-> ww], installed |-> TRUE]
             ELSE [success |-> FALSE, msgs |-> <<Msg(cmd, 1, f, lw, ww)>>,
                   group |-> dp_group, installed |-> group_installed]

\* The answer to POST /offload_confirm arrives: "ok" is status 200 with
\* success, "rejected" is the 403 of a credential mismatch, "error" is a
\* timeout or a connection error.  On success the group is installed or
\* updated for the first monitored flow, the flow rule to the group is sent
\* to the first datapath (_install_group_flow_rule; a switch without the
\* group refuses it), and the cycle ends.
\*   f      list(self.monitored_flows)[0]
\*   fid    int(time.time() * 1000) % 100000
ConfirmReply(reply, f, fid, tx_ok) ==
    /\ loop_pc = "neg"
    /\ f \in monitored_flows
    /\ LET c == cyc
           failed(o) == Finish(c, "OFFLOAD",
                               <<AlphaZero, c.V_LTE, 0, NoFlowlet>>,
                               reply, o)
           res == install_or_update_group(f, c.alpha, tx_ok)
           dp == datapaths[1]
       IN  IF ~NegotiationOk(reply)
           THEN /\ failed(IF reply = "rejected" THEN "rejected"
                          ELSE "neg_error")
                /\ UNCHANGED <<offVars, cyc_tx>>
           ELSE IF ~offloader
                THEN /\ failed("no_offloader")
                     /\ UNCHANGED <<offVars, cyc_tx>>
                ELSE /\ last_packet_time' =
                           [last_packet_time EXCEPT ![f] = 0]
                     /\ group_installed' = res.installed
                     /\ dp_group' = res.group
                     /\ IF res.success
                        THEN /\ cyc_tx' = cyc_tx \o
                                    UpdateMsgs(res.msgs,
                                        Msg("flow", dp, RuleFlow, 0, 0))
                             /\ dp_rule' = (dp_rule \/ dp = 1)
                             /\ Finish(c, "OFFLOAD",
                                       <<c.alpha, c.V_LTE, c.V_WiFi, fid>>,
                                       reply, "offloaded")
                        ELSE /\ cyc_tx' = cyc_tx \o res.msgs
                             /\ UNCHANGED dp_rule
                             /\ failed("tx_failed")
    /\ UNCHANGED <<authenticated_ues, prev_neg, cyc_neg>>
    /\ UNCHANGED <<pktVars, telVars, model_loaded, datapaths, offloader,
                   srcVars, call_age>>
    /\ UNCHANGED <<wifiVars, evaluated>>

\* ------------------------------------------------------------------------
\* TrafficOffloader.execute_offload (traffic_offloading.py)
\* ------------------------------------------------------------------------
\* int(ratio * 100) for ratio = x / total in IEEE doubles: the product of
\* the double nearest to k/100 falls just under k for k = 29, 57, 58, and
\* nowhere else does the rounding cross an integer
IntPctShort(x, total) == ((100 * x) \div total) - 1
IntPct(x, total) ==
    LET q == (100 * x) \div total
    IN  IF (100 * x) % total = 0 /\ q \in {29, 57, 58} THEN q - 1 ELSE q

\* lte_bucket_weight, wifi_bucket_weight = max(1, int(weight * 100))
BucketWeightNoFloor(x, total) == IntPct(x, total)
BucketWeight(x, total) == Max(1, IntPct(x, total))

OfMsg(cmd, lw, ww, sent) ==
    [cmd |-> cmd, lte |-> lw, wifi |-> ww, sent |-> sent,
     had_group |-> dp_group # NoGroup]

\* The switch on OFPGC_DELETE of group 1: the group goes, and with it the
\* flow entries that point to it
GroupAfterDelete(sent, grp) == IF sent THEN NoGroup ELSE grp
RuleAfterDelete(sent, rule) == IF sent THEN FALSE ELSE rule

\* The switch on OFPGC_ADD of group 1: refused when the group exists
GroupAfterAdd(sent, grp, lw, ww) ==
    IF sent /\ grp = NoGroup THEN [lte |-> lw, wifi |-> ww] ELSE grp

\* The switch on the flow entry to group 1: refused when the group is absent
RuleAfterFlow(sent, grp, rule) == IF sent /\ grp # NoGroup THEN TRUE ELSE rule

\* Lines 157-174 and _install_flowlet_flow: the add, then the flow entry;
\* an exception of either send_msg is caught and printed.  execute_offload
\* then returns True.
AddAndFlow(c, tx, grp, rule, add_ok, flow_ok) ==
    LET grp2 == GroupAfterAdd(add_ok, grp, c.lte, c.wifi)
    IN  /\ dp_group' = grp2
        /\ dp_rule' = RuleAfterFlow(flow_ok, grp2, rule)
        /\ off_tx' = tx \o
              << [cmd |-> "add", lte |-> c.lte, wifi |-> c.wifi,
                  sent |-> add_ok, had_group |-> grp # NoGroup],
                 [cmd |-> "flow", lte |-> 0, wifi |-> 0,
                  sent |-> flow_ok, had_group |-> grp2 # NoGroup] >>
        /\ off_call' = [c EXCEPT !.add_failed = ~add_ok, !.ret = "True"]
        /\ off_pc' = "idle"

\* execute_offload(src_ip, dst_ip, wifi_load, lte_throughput,
\* wifi_throughput) up to time.sleep(0.1) or, where that is not reached, to
\* its return.  del_ok, add_ok, flow_ok: whether send_msg of the message
\* returns (else it raises).
OffCall(wifi_load, lte_throughput, wifi_throughput, del_ok, add_ok, flow_ok) ==
    /\ off_pc = "idle"
    /\ calls < MaxCalls
    /\ calls' = calls + 1
    /\ call_age' = 0
    /\ LET args == <<wifi_load, lte_throughput, wifi_throughput>>
           total_throughput == lte_throughput + wifi_throughput
           c == [gap |-> call_age,
                 same |-> calls > 0 /\ off_call.args = args,
                 args |-> args,
                 had_group |-> dp_group # NoGroup,
                 group_before |-> dp_group,
                 lte |-> 0, wifi |-> 0,
                 add_failed |-> FALSE, ret |-> "none"]
       IN  IF wifi_load >= OverloadPct \/ total_throughput <= 0
           THEN /\ off_call' = [c EXCEPT !.ret = "False"]
                /\ off_tx' = <<>>
                /\ off_pc' = "idle"
                /\ UNCHANGED <<dp_group, dp_rule>>
           ELSE IF ~dp_lte
                THEN \* _install_flowlet_forwarding returns at once
                     /\ off_call' = [c EXCEPT !.ret = "True"]
                     /\ off_tx' = <<>>
                     /\ off_pc' = "idle"
                     /\ UNCHANGED <<dp_group, dp_rule>>
                ELSE LET cw == [c EXCEPT
                                  !.lte = BucketWeight(lte_throughput,
                                                       total_throughput),
                                  !.wifi = BucketWeight(wifi_throughput,
                                                        total_throughput)]
                         del == OfMsg("delete", 0, 0, del_ok)
                     IN  IF del_ok
                         THEN /\ dp_group' = GroupAfterDelete(TRUE, dp_group)
                              /\ dp_rule' = RuleAfterDelete(TRUE, dp_rule)
                              /\ off_tx' = <<del>>
                              /\ off_call' = cw
                              /\ off_pc' = "sleeping"
                         ELSE AddAndFlow(cw, <<del>>, dp_group, dp_rule,
                                         add_ok, flow_ok)
    /\ UNCHANGED <<pktVars, telVars, loopVars, group_installed,
                   last_packet_time, model_loaded, datapaths, offloader,
                   dp_lte>>
    /\ UNCHANGED <<wifiVars, evaluated>>

\* time.sleep(0.1) returns: the add and the flow entry are sent
OffAdd(add_ok, flow_ok) ==
    /\ off_pc = "sleeping"
    /\ AddAndFlow(off_call, off_tx, dp_group, dp_rule, add_ok, flow_ok)
    /\ call_age' = 0
    /\ packet_times' = [f \in Flows |-> Aged(packet_times[f], SleepMs)]
    /\ last_packet_time' =
          [f \in Flows |-> Aged(last_packet_time[f], SleepMs)]
    /\ UNCHANGED <<mac_to_port, monitored_flows, flow_detected, flow_stats,
                   packet_counters, flowlet_counters, VIDEO_BITRATE_MBPS,
                   ex_pos, ex_ids>>
    /\ UNCHANGED <<telVars, loopVars, group_installed, model_loaded,
                   datapaths, offloader, dp_lte, calls>>
    /\ wifi_authenticated_ues' = AgedUes(SleepMs)
    /\ UNCHANGED <<current_load, total_throughput_mbps, wifi_resp, confirms,
                   wifi_flow_stats, evaluated>>

\* Time passes between two calls
OffTick(d) == off_pc = "idle" /\ calls > 0 /\ Tick(d)

\* ------------------------------------------------------------------------
\* WiFiController.flow_stats_reply_handler from line 187 on: the load of
\* Equation 3 out of user_throughputs, the list the loop over the reply has
\* built (one throughput per flow that carried traffic)
\* ------------------------------------------------------------------------
RECURSIVE SumSeq(_)
SumSeq(q) == IF q = <<>> THEN 0 ELSE Head(q) + SumSeq(Tail(q))

\* min(1.0, D_wifi_avg / self.wifi_capacity_mbps), in percent
load_of(D_wifi_avg) == Min(100, (100 * D_wifi_avg) \div wifi_capacity_mbps)

LoadUpdate(user_throughputs) ==
    /\ IF user_throughputs # <<>>
       THEN LET D_wifi_avg == SumSeq(user_throughputs)
                                 \div Len(user_throughputs)
            IN  /\ total_throughput_mbps' = D_wifi_avg
                /\ current_load' = load_of(D_wifi_avg)
       ELSE /\ total_throughput_mbps' = 0
            /\ current_load' = 0

\* flow_tput_mbps = (byte_delta * 8) / (time_delta * 1e6), to a thousandth
flow_tput_mbps(byte_delta, time_delta) == (byte_delta * 8) \div time_delta

\* if time_delta > 0 and byte_delta > 0: the flow counts
CarriedAny(byte_delta, time_delta) == time_delta > 0
Carried(byte_delta, time_delta) == time_delta > 0 /\ byte_delta > 0

\* The throughputs of the flows k..N of the reply `body` (flow -> byte
\* count or NoStat) that carried traffic since the reply before
RECURSIVE ThroughputsOf(_, _, _)
ThroughputsOf(k, body, time_delta) ==
    IF k \notin WifiFlows THEN <<>>
    ELSE LET byte_delta == body[k] - wifi_flow_stats[k]
             rest == ThroughputsOf(k + 1, body, time_delta)
         IN  IF body[k] # NoStat /\ Carried(byte_delta, time_delta)
             THEN <<flow_tput_mbps(byte_delta, time_delta)>> \o rest
             ELSE rest

\* WiFiController.flow_stats_reply_handler for the reply `body`, handled
\* time_delta ms after the one before
FlowStatsReply(body, time_delta) ==
    /\ IF time_delta < MinStatsDelta
       THEN UNCHANGED <<wifi_flow_stats, total_throughput_mbps,
                        current_load>>
       ELSE /\ wifi_flow_stats' =
                  [k \in WifiFlows |->
                      IF body[k] # NoStat THEN body[k]
                      ELSE wifi_flow_stats[k]]
            /\ LoadUpdate(ThroughputsOf(1, body, time_delta))
    /\ UNCHANGED <<wifi_authenticated_ues, wifi_resp, confirms>>
    /\ UNCHANGED <<pktVars, telVars, loopVars, offVars, srcVars, call_age,
                   model_loaded, datapaths, offloader, evaluated>>

\* ------------------------------------------------------------------------
\* WiFiRestController.offload_confirm
\* ------------------------------------------------------------------------
\* self.wifi_app.authenticated_ues[ue_mac] = {token, auth_time: now}
AuthenticateKeep(ues, mac, token) ==
    IF ues[mac].token # NoToken THEN ues
    ELSE [ues EXCEPT ![mac] = [token |-> token, auth_time |-> 0]]
Authenticate(ues, mac, token) ==
    [ues EXCEPT ![mac] = [token |-> token, auth_time |-> 0]]

\* available_bw = wifi_capacity_mbps * (1 - current_load)
available_bwUsed(load) == (wifi_capacity_mbps * load) \div 100
available_bw(load) == (wifi_capacity_mbps * (100 - load)) \div 100

\* allocated_bw = min(requested_bw, available_bw)
allocated_bw(requested_bw, load) == Min(requested_bw, available_bw(load))

\* A POST to /offload_confirm.  well_formed: the body is JSON (else
\* json.loads raises and the answer is the 400 of the except clause).
OffloadConfirm(well_formed, ue_mac, provided_token, requested_bw) ==
    /\ confirms < MaxConfirms
    /\ confirms' = confirms + 1
    /\ LET expected_tok == valid_tokens(ue_mac)
           req == [well_formed |-> well_formed, ue_mac |-> ue_mac,
                   auth_token |-> provided_token,
                   requested_bw |-> requested_bw, load |-> current_load,
                   was_auth |->
                      wifi_authenticated_ues[ue_mac].token # NoToken]
           answer(status, success, bw, error) ==
               [status |-> status, success |-> success,
                allocated_bw |-> bw, error |-> error] @@ req
       IN  IF ~well_formed
           THEN /\ wifi_resp' = answer(400, FALSE, 0, "exception")
                /\ UNCHANGED wifi_authenticated_ues
           ELSE IF expected_tok = NoToken
           THEN /\ wifi_resp' = answer(403, FALSE, 0, "Unknown UE")
                /\ UNCHANGED wifi_authenticated_ues
           ELSE IF provided_token # expected_tok
           THEN /\ wifi_resp' = answer(403, FALSE, 0, "Invalid credentials")
                /\ UNCHANGED wifi_authenticated_ues
           ELSE /\ wifi_authenticated_ues' =
                      Authenticate(wifi_authenticated_ues, ue_mac,
                                   provided_token)
                /\ wifi_resp' =
                      IF requested_bw = NoBw
                      THEN \* min(requested_bw, available_bw) raises
                           answer(400, FALSE, 0, "exception")
                      ELSE answer(200, TRUE,
                                  allocated_bw(requested_bw, current_load),
                                  "")
    /\ UNCHANGED <<current_load, total_throughput_mbps, wifi_flow_stats>>
    /\ UNCHANGED <<pktVars, telVars, loopVars, offVars, srcVars, call_age,
                   model_loaded, datapaths, offloader, evaluated>>

\* ------------------------------------------------------------------------
\* Specification of the controller
\* ------------------------------------------------------------------------
PacketsSeen ==
    DetectedCounter(packet_counters, "f1")
      + DetectedCounter(packet_counters, "f2")

Next ==
    \/ \E dpid \in Dpids : SwitchFeaturesHandler(dpid)
    \/ \E f \in Flows : PacketsSeen < MaxCtlPackets /\ PacketIn(f)
    \/ \E l \in LteSamples, w \in WifiSamples : PostUeMetrics(l, w)
    \/ LoopDetect
    \/ CycleBegin
    \/ \E a \in LoadAnswers, load \in Loads, sl \in CtlScores,
          sw \in CtlScores : LoadReply(a, load, sl, sw)
    \/ \E reply \in ConfirmReplies, f \in Flows, fid \in FlowletIds,
          tx_ok \in BOOLEAN : ConfirmReply(reply, f, fid, tx_ok)

Spec == Init /\ [][Next]_vars

\* ------------------------------------------------------------------------
\* Specification of the packet path alone
\* ------------------------------------------------------------------------
NextFlowlet ==
    \/ \E dpid \in Dpids : SwitchFeaturesHandler(dpid)
    \/ \E f \in Flows : PacketIn(f)
    \/ \E d \in FineTicks : Tick(d)

SpecFlowlet == Init /\ [][NextFlowlet]_vars

\* ------------------------------------------------------------------------
\* Specification of TrafficOffloader.execute_offload alone, made with or
\* without a datapath
\* ------------------------------------------------------------------------
InitOffloaderAlone ==
    /\ InitPacket /\ InitController /\ InitOffloader /\ InitWifi
    /\ evaluated = NoEval
    /\ \E with_dp \in BOOLEAN : InitTrafficOffloader(with_dp)

NextOffloader ==
    \/ \E wl \in OffLoads, lt \in OffTputs, wt \in OffTputs,
          del_ok \in BOOLEAN, add_ok \in BOOLEAN, flow_ok \in BOOLEAN :
          OffCall(wl, lt, wt, del_ok, add_ok, flow_ok)
    \/ \E add_ok \in BOOLEAN, flow_ok \in BOOLEAN : OffAdd(add_ok, flow_ok)
    \/ \E d \in OffTicks : OffTick(d)

SpecOffloader == InitOffloaderAlone /\ [][NextOffloader]_vars

\* ------------------------------------------------------------------------
\* Specification of the WiFi controller alone
\* ------------------------------------------------------------------------
NextWifi ==
    \/ \E wf \in BOOLEAN, m \in WifiMacs, t \in WifiTokens,
          bw \in RequestedBw : OffloadConfirm(wf, m, t, bw)
    \/ \E body \in [WifiFlows -> ByteCounts \cup {NoStat}],
          td \in StatsDeltas : FlowStatsReply(body, td)
    \/ \E d \in WifiTicks : Tick(d)

SpecWifi == Init /\ [][NextWifi]_vars

\* ------------------------------------------------------------------------
\* C1: the first packet of a flow starts flowlet 1; every later packet
\* raises the flow's flowlet counter by exactly one when its gap to the
\* previous packet of the flow is strictly greater than 50 ms and leaves
\* it unchanged when the gap is <= 50 ms; the counter never decreases and
\* no other flow's counter moves.  Gaps [0, 10, 60, 5] ms give flowlet
\* ids [1, 1, 2, 2].
\* ------------------------------------------------------------------------
C1_Step(f) ==
    LET before == IF flowlet_counters[f] = -1 THEN 0 ELSE flowlet_counters[f]
        after == IF flowlet_counters'[f] = -1 THEN 0 ELSE flowlet_counters'[f]
        handled == packet_counters'[f] # packet_counters[f]
    IN  /\ after >= before
        /\ ~handled => after = before
        /\ handled /\ packet_times[f] = NoAge => after = 1
        /\ handled /\ packet_times[f] # NoAge /\ packet_times[f] > 50
              => after = before + 1
        /\ handled /\ packet_times[f] # NoAge /\ packet_times[f] <= 50
              => after = before

C1_FlowletCounter ==
    [][ /\ \A f \in Flows : C1_Step(f)
        /\ (ex_pos' = Len(ExampleGaps) => ex_ids' = <<1, 1, 2, 2>>) ]_vars

\* a flow whose fourth packet completed the example gap sequence, with a
\* second flowlet opened by the 60 ms gap
C1_Witness ==
    /\ ex_pos = Len(ExampleGaps)
    /\ flowlet_counters["f1"] = 2
    /\ packet_counters["f1"] = 4


\* ------------------------------------------------------------------------
\* The cycle that ended last, while the loop sleeps or has stopped: its
\* record, and the requests and messages it sent
\* ------------------------------------------------------------------------
CycleEnded ==
    /\ loop_pc \in {"sleep", "done"}
    /\ last_record.outcome \notin {"none", "warmup"}

GroupMsgs(tx) == {i \in DOMAIN tx : tx[i].cmd \in {"add", "modify", "delete"}}

\* ------------------------------------------------------------------------
\* C2: the bucket weights of the table of a flow change only at a flowlet
\* boundary of that flow: every step that sends a group-table install or
\* update for a flow is a step in which a new flowlet of that flow is
\* detected (its flowlet counter moves); none is sent in any other step.
\* ------------------------------------------------------------------------
C2_WeightsOnlyAtBoundary ==
    [][ \A i \in GroupMsgs(cyc_tx') :
           i > Len(cyc_tx) =>
              flowlet_counters'[cyc_tx'[i].flow]
                 # flowlet_counters[cyc_tx'[i].flow] ]_vars

\* ------------------------------------------------------------------------
\* C3: flowlet idempotence of execute_offload: a call made at most 50 ms
\* after the one before, with the same arguments and with the table in the
\* switch, sends no message and returns success; a call made more than
\* 50 ms after the one before that goes through sends at least one message.
\* ------------------------------------------------------------------------
C3_FlowletIdempotence ==
    (off_pc = "idle" /\ off_call.ret # "none" /\ off_call.gap # NoAge) =>
       /\ (off_call.gap <= DeltaMs /\ off_call.same /\ off_call.had_group)
             => (off_tx = <<>> /\ off_call.ret = "True")
       /\ (off_call.gap > DeltaMs /\ off_call.ret = "True" /\ dp_lte)
             => off_tx # <<>>

\* ------------------------------------------------------------------------
\* C4: the group table goes from absent to installed and never back: once
\* the switch holds group 1, no step of the offloader leaves it without.
\* ------------------------------------------------------------------------
C4_NeverAbsentAgain ==
    [][ dp_group # NoGroup => dp_group' # NoGroup ]_vars

\* ------------------------------------------------------------------------
\* C5: in every group-table message that carries buckets, both the LTE
\* weight and the WiFi weight are integers of at least 1, whatever the
\* ratio of the two throughputs (a share of 0 included).
\* ------------------------------------------------------------------------
C5_BucketWeightsAtLeastOne ==
    \A i \in DOMAIN off_tx :
        off_tx[i].cmd = "add" =>
           /\ off_tx[i].lte \in Nat /\ off_tx[i].lte >= 1
           /\ off_tx[i].wifi \in Nat /\ off_tx[i].wifi >= 1

\* an add whose LTE share was 0 and whose LTE bucket has weight 1
C5_Witness ==
    \E i \in DOMAIN off_tx :
        /\ off_tx[i].cmd = "add"
        /\ off_call.args[2] = 0
        /\ off_tx[i].lte = 1

\* ------------------------------------------------------------------------
\* C6: the two bucket weights computed from the shares r and 1 - r sum to
\* 100, give or take 1 (truncation, and the floor of 1 per leg).
\* ------------------------------------------------------------------------
C6_BucketWeightsSum ==
    \A i \in DOMAIN off_tx :
        off_tx[i].cmd = "add" =>
           /\ off_tx[i].lte + off_tx[i].wifi >= 99
           /\ off_tx[i].lte + off_tx[i].wifi <= 101

\* an add whose weights sum to 99: the shares 0.29 and 0.71 give 28 and 71
C6_Witness ==
    \E i \in DOMAIN off_tx :
        /\ off_tx[i].cmd = "add"
        /\ off_tx[i].sent
        /\ off_tx[i].lte + off_tx[i].wifi = 99

\* ------------------------------------------------------------------------
\* C7: when the add of the group table fails, execute_offload reports the
\* split as not applied (it returns False) and the switch still holds the
\* table it held before the call.
\* ------------------------------------------------------------------------
C7_FailureReported ==
    (off_pc = "idle" /\ off_call.add_failed) =>
       /\ off_call.ret = "False"
       /\ dp_group = off_call.group_before

\* ------------------------------------------------------------------------
\* C8: a warmed-up cycle decides LTE only (alpha 0, no negotiation request,
\* no table message) exactly when T_LTE = V / (tput / 8) < T_c = 15 s and
\* the LTE class is not Bad, and decides to offload in every other case;
\* 150 MB at 2 Mbps (T_LTE = 600 s) is an offload.
\* ------------------------------------------------------------------------
C8_DecisionRule ==
    /\ ~StayLteOnly(V_total, 2000, "Good")
    /\ CycleEnded =>
         LET r == last_record
             lte_only == /\ 8000 * r.V_before < 15 * 1600 * r.lte_tput
                         /\ r.quality # "Bad"
         IN  /\ r.decision = "LTE_ONLY" <=> lte_only
             /\ r.decision = "OFFLOAD" <=> ~lte_only
             /\ lte_only => /\ r.alpha = AlphaZero
                            /\ cyc_neg = 0
                            /\ cyc_tx = <<>>

\* a cycle that stayed on LTE with a Good link and less than 15 s to go
C8_Witness ==
    /\ CycleEnded
    /\ last_record.decision = "LTE_ONLY"
    /\ last_record.quality = "Good"
    /\ last_record.V_before > 0

\* ------------------------------------------------------------------------
\* C9: in a cycle the negotiation request is sent only if V_WiFi >= 1 MB,
\* and the group table and its flow rule are sent only after the request of
\* that cycle was answered with success; with V_WiFi < 1 MB the cycle sends
\* no request and no table message.
\* ------------------------------------------------------------------------
C9_OffloadOrder ==
    /\ loop_pc = "load" => (cyc_neg = 0 /\ cyc_tx = <<>>)
    /\ loop_pc = "neg" =>
          (cyc_neg = 1 /\ cyc_tx = <<>> /\ cyc.V_WiFi >= MinWifiVolume)
    /\ CycleEnded =>
          /\ cyc_neg > 0 => last_record.want_wifi >= MinWifiVolume
          /\ cyc_tx # <<>> => (cyc_neg > 0 /\ last_record.neg = "ok")
          /\ last_record.want_wifi < MinWifiVolume =>
                (cyc_neg = 0 /\ cyc_tx = <<>>)

\* an offload cycle abandoned for a V_WiFi under 1 MB
C9_Witness ==
    /\ CycleEnded
    /\ last_record.decision = "OFFLOAD"
    /\ last_record.want_wifi < MinWifiVolume
    /\ cyc_neg = 0

\* ------------------------------------------------------------------------
\* C10: when the WiFi controller rejects the credentials, the cycle sends
\* no table message, leaves the group and the flow rule of the switch as
\* they were, has sent exactly one negotiation request (no cycle sends
\* more than one), and reports alpha 0 and no flowlet; the next cycle that
\* decides to offload a V_WiFi >= 1 MB sends a negotiation request again.
\* ------------------------------------------------------------------------
C10_RejectedCycle ==
    [][ /\ cyc_neg' <= 1
        /\ (loop_pc = "neg" /\ loop_pc' # "neg"
              /\ last_record'.neg = "rejected") =>
              /\ cyc_tx' = <<>>
              /\ cyc_neg' = 1
              /\ dp_group' = dp_group
              /\ dp_rule' = dp_rule
              /\ group_installed' = group_installed
              /\ last_record'.alpha = AlphaZero
              /\ last_record'.flowlet_id = NoFlowlet
        /\ (loop_pc = "load" /\ loop_pc' # "load"
              /\ prev_neg = "rejected") =>
              \/ loop_pc' = "neg" /\ cyc_neg' = 1
              \/ last_record'.decision = "LTE_ONLY"
              \/ last_record'.want_wifi < MinWifiVolume
      ]_vars

\* a negotiation request in flight in the cycle after a rejected one
C10_Witness ==
    /\ loop_pc = "neg"
    /\ cyc_neg = 1
    /\ prev_neg = "rejected"

C13_VolumeAccounting ==
    [][ LET ended == /\ loop_pc \in {"load", "neg"}
                     /\ loop_pc' \in {"sleep", "done"}
            tput == IF loop_pc = "load"
                    THEN calculate_lte_throughput(current_rssi_lte,
                                                  current_pdr_lte)
                    ELSE cyc.lte_tput
            sent == (tput * 5 * 1600) \div 8000
        IN  /\ ended =>
               /\ last_record'.lte_tput = tput
               /\ V_remaining' =
                     IF V_remaining - sent < 0 THEN 0 ELSE V_remaining - sent
            /\ ~ended => V_remaining' = V_remaining
      ]_vars

\* a cycle that offloaded a V_WiFi > 0 and took off the LTE share only
C13_Witness ==
    /\ CycleEnded
    /\ last_record.outcome = "offloaded"
    /\ last_record.V_WiFi > 0
    /\ V_remaining > 0
    /\ V_remaining = last_record.V_before - last_record.lte_tput

\* ------------------------------------------------------------------------
\* C14: the cycle in which the remaining volume reaches 0 writes its
\* record and ends the loop; from then on the loop takes no step: no load
\* query, no negotiation request, no table message, no record and no
\* change of the remaining volume.
\* ------------------------------------------------------------------------
C14_StopsWhenComplete ==
    [][ /\ (V_remaining' = 0) <=> (loop_pc' = "done")
        /\ (V_remaining # 0 /\ V_remaining' = 0) =>
              last_record'.decision \in {"LTE_ONLY", "OFFLOAD"}
        /\ loop_pc = "done" =>
              /\ loop_pc' = "done"
              /\ UNCHANGED <<V_remaining, last_record, cyc, cyc_neg, cyc_tx,
                             prev_neg, dp_group, dp_rule, group_installed>>
      ]_vars

\* the loop stopped by a cycle that offloaded and sent the last of the
\* volume, its record written
C14_Witness ==
    /\ loop_pc = "done"
    /\ V_remaining = 0
    /\ last_record.decision = "OFFLOAD"
    /\ last_record.V_before > 0
    /\ last_record.V_before < last_record.lte_tput

\* ------------------------------------------------------------------------
\* C15: every cycle that runs after flow detection, the warm-up cycle
\* included, writes a decision record.
\* ------------------------------------------------------------------------
C15_RecordEveryCycle ==
    (loop_pc \in {"sleep", "done"} /\ last_record.outcome # "none") =>
       last_record.decision \in {"LTE_ONLY", "OFFLOAD"}

\* ------------------------------------------------------------------------
\* C16: the decision body runs only with a detected flow and at least 30
\* LTE samples: before the first monitored packet the loop waits, and a
\* step that queries the load, sends a negotiation request or a table
\* message, writes a record or changes the remaining volume is taken only
\* with a detected flow and a full LTE window.
\* ------------------------------------------------------------------------
C16_WarmupGuard ==
    [][ LET ready(det, win) == det /\ Len(win) >= 30
        IN  /\ ~flow_detected' => loop_pc' = "wait_flow"
            /\ loop_pc' \in {"load", "neg"} =>
                  ready(flow_detected', lte_rssi_window')
            /\ ( \/ V_remaining' # V_remaining
                 \/ cyc_neg' > cyc_neg
                 \/ (cyc_tx' # cyc_tx /\ cyc_tx' # <<>>)
                 \/ (last_record' # last_record
                        /\ last_record'.decision # "")
                 \/ (loop_pc = "sleep" /\ loop_pc' = "load") ) =>
                  ready(flow_detected, lte_rssi_window)
      ]_vars

\* a cycle that ran with fewer than 30 samples and did nothing
C16_Witness ==
    /\ flow_detected
    /\ loop_pc = "sleep"
    /\ last_record.outcome = "warmup"
    /\ Len(lte_rssi_window) = 29
    /\ V_remaining = V_total
    /\ cyc_neg = 0
    /\ cyc_tx = <<>>

\* ------------------------------------------------------------------------
\* C17: the load query always yields a value: when the request times out,
\* raises or is answered with another status than 200, the cycle goes on
\* (the loop is never left waiting) and works with the load 0.30.
\* ------------------------------------------------------------------------
C17_LoadFallback ==
    /\ loop_pc = "load" =>
          \A a \in LoadAnswers \ {"ok"} :
             ENABLED LoadReply(a, 0, "Fallback", "Fallback")
    /\ (loop_pc = "neg" /\ ~cyc.load_ok) => cyc.wifi_load = 30
    /\ (CycleEnded /\ ~last_record.load_ok) => last_record.wifi_load = 30

\* an offload performed with the split computed from the default load
C17_Witness ==
    /\ CycleEnded
    /\ ~last_record.load_ok
    /\ last_record.wifi_load = 30
    /\ last_record.outcome = "offloaded"
    /\ last_record.alpha # AlphaZero

C20_UpdatesOrdered ==
    [][ LET tx == cyc_tx'
        IN  /\ (cyc_tx' # cyc_tx /\ tx # <<>>) =>
                 /\ loop_pc = "neg"
                 /\ loop_pc' \in {"sleep", "done"}
                 /\ cyc_tx = <<>>
                 /\ Cardinality(GroupMsgs(tx)) <= 1
                 /\ \A i \in DOMAIN tx :
                       tx[i].cmd = "flow" =>
                          /\ i = Len(tx)
                          /\ \A j \in GroupMsgs(tx) : j < i
            /\ (cyc_tx' = cyc_tx \/ tx = <<>>) =>
                 UNCHANGED <<dp_group, dp_rule, group_installed>>
      ]_vars

\* the second update of the flow, sent whole after the first: the group
\* modified in place, then the rule
C20_Witness ==
    /\ CycleEnded
    /\ Len(cyc_tx) = 2
    /\ cyc_tx[1].cmd = "modify"
    /\ cyc_tx[2].cmd = "flow"
    /\ PacketsSeen = MaxCtlPackets

\* ------------------------------------------------------------------------
\* Specification of the decision of one cycle
\* ------------------------------------------------------------------------
\* The controller in a warmed-up cycle, at its load query, with a remaining
\* volume the earlier cycles can have left (each takes 2 to 20 Mbps for 5 s
\* off the 150 MB): 6.875 MB, 18.75 MB and 30 MB.  The switch with dpid 1
\* is connected, one packet of f1 has been handled, the windows hold 30
\* copies of the sample posted last, and the negotiations of the earlier
\* cycles were not answered, so that no group is installed yet.
DecideVolumes == {11000, 30000, 48000}

Window(x) == [i \in 1..WindowLen |-> x]

\* The warmed-up controller with its loop at pc, a remaining volume of
\* volumes and its windows filled with a sample of samples
InitWarm(volumes, pc, samples) ==
    /\ mac_to_port = {EthSrc("f1")}
    /\ monitored_flows = {"f1"}
    /\ flow_detected = TRUE
    /\ flow_stats = [f \in Flows |-> IF f = "f1" THEN 0 ELSE -1]
    /\ packet_counters = [f \in Flows |-> IF f = "f1" THEN 1 ELSE -1]
    /\ flowlet_counters = [f \in Flows |-> IF f = "f1" THEN 1 ELSE -1]
    /\ packet_times = [f \in Flows |-> IF f = "f1" THEN AgeCap ELSE NoAge]
    /\ VIDEO_BITRATE_MBPS = identify_application("f1")
    /\ ex_pos = 1
    /\ ex_ids = <<1>>
    /\ model_loaded \in BOOLEAN
    /\ \E l \in samples, w \in WifiSamples :
          /\ lte_rssi_window = Window(l[1])
          /\ lte_pdr_window = Window(l[2])
          /\ wifi_rssi_window = Window(w[1])
          /\ wifi_pdr_window = Window(w[2])
          /\ current_rssi_lte = l[1]
          /\ current_pdr_lte = l[2]
          /\ current_rssi_wifi = w[1]
          /\ current_pdr_wifi = w[2]
    /\ changes = MaxChanges
    /\ V_remaining \in volumes
    /\ loop_pc = pc
    /\ cyc = NoCyc
    /\ authenticated_ues = {UeMac}
    /\ datapaths = <<1>>
    /\ offloader = TRUE
    /\ last_record = NoRecord
    /\ prev_neg = "error"
    /\ cyc_neg = 0
    /\ cyc_tx = <<>>
    /\ InitOffloader
    /\ InitTrafficOffloader(TRUE)
    /\ InitWifi
    /\ evaluated = NoEval

InitDecide == InitWarm(DecideVolumes, "load", LteSamples)

\* The cycles from there on, with every class the scorer can yield
NextDecide ==
    \/ CycleBegin
    \/ \E a \in LoadAnswers, load \in Loads, sl \in ScorerOut,
          sw \in CtlScores : LoadReply(a, load, sl, sw)
    \/ \E reply \in ConfirmReplies, f \in Flows, fid \in FlowletIds,
          tx_ok \in BOOLEAN : ConfirmReply(reply, f, fid, tx_ok)

SpecDecide == InitDecide /\ [][NextDecide]_vars

\* ------------------------------------------------------------------------
\* C19: decision monotonicity: when a cycle decided an offload and
\* performed it, the same cycle (same remaining volume, WiFi prediction,
\* load, class and deadline) with a lower predicted LTE throughput does
\* not end LTE only: the offload is decided and its V_WiFi is not below
\* the 1 MB threshold.
\* ------------------------------------------------------------------------
C19_DecisionMonotone ==
    [][ (loop_pc = "neg" /\ last_record'.outcome = "offloaded") =>
           \A s \in ScorerOut :
              LET lower == predict_throughput(lte_rssi_window,
                                              lte_pdr_window, s)[1]
              IN  (model_loaded \/ s = "Fallback") /\ lower < cyc.pred_lte
                  => /\ ~StayLteOnly(V_remaining, cyc.lte_tput, cyc.quality)
                     /\ OffloadWorth(V_WiFi_of(V_remaining, lower))
      ]_vars

\* ------------------------------------------------------------------------
\* C29: offload_confirm accepts a request exactly when its token is the
\* token derived from its MAC (TOKEN_ and the digits of the MAC), the
\* condition of authenticate_ue on the offloading controller.
\* ------------------------------------------------------------------------
C29_TokenDerived ==
    wifi_resp.well_formed =>
       (wifi_resp.success <=>
           wifi_resp.auth_token = expected_token(wifi_resp.ue_mac))

\* ------------------------------------------------------------------------
\* C30: the load of the WiFi controller is a number in [0, 1] after every
\* flow-statistics reply, also after one whose byte counters went down;
\* it is 0 after a reply in which no flow carried traffic, and above 0
\* after one in which a counter went up.
\* ------------------------------------------------------------------------
C30_LoadInRange ==
    [][ LET up == \E k \in WifiFlows :
                     wifi_flow_stats'[k] > wifi_flow_stats[k]
        IN  /\ current_load' >= 0 /\ current_load' <= 100
            /\ total_throughput_mbps' >= 0
            /\ (wifi_flow_stats' # wifi_flow_stats /\ ~up) =>
                  (current_load' = 0 /\ total_throughput_mbps' = 0)
            /\ up => current_load' > 0
      ]_vars

\* the load back at 0 with both flows counted before, one counter lower
\* than the other
C30_Witness ==
    /\ current_load = 0
    /\ total_throughput_mbps = 0
    /\ wifi_flow_stats[1] = 13500000
    /\ wifi_flow_stats[2] = 6750000

\* ------------------------------------------------------------------------
\* Specification of the pure functions: the classifier and the predictor,
\* called once with arguments of PureRssi, PurePdr, PureLens and ScorerOut
\* ------------------------------------------------------------------------
Series(n, old, last) == [i \in 1..n |-> IF i = n THEN last ELSE old]

\* The call to make: its function and its arguments
Call(fn, rssi_series, pdr_series, rssi, pdr, score) ==
    [NoEval EXCEPT !.fn = fn, !.rssi_series = rssi_series,
                   !.pdr_series = pdr_series, !.rssi = rssi, !.pdr = pdr,
                   !.score = score]

InitPure ==
    /\ InitPacket /\ InitController /\ InitOffloader
    /\ InitTrafficOffloader(TRUE) /\ InitWifi
    /\ \E rssi \in PureRssi, pdr \in PurePdr :
          \/ evaluated = Call("classify", <<>>, <<>>, rssi, pdr, "")
          \/ \E n_rssi \in PureLens, n_pdr \in PureLens,
                score \in PureScores, old \in PureOlds :
                /\ score = "Raises" => model_loaded
                /\ evaluated = Call("predict",
                                    Series(n_rssi, old[1], rssi),
                                    Series(n_pdr, old[2], pdr), rssi, pdr,
                                    score)

\* QualityClassifier().classify(rssi, pdr)
Classify ==
    /\ evaluated.fn = "classify"
    /\ evaluated' = [evaluated EXCEPT
                        !.done = TRUE,
                        !.label = classify(evaluated.rssi, evaluated.pdr)]
    /\ UNCHANGED <<pktVars, telVars, loopVars, offVars, srcVars, call_age,
                   model_loaded, datapaths, offloader, wifiVars>>

\* ChannelPredictor.predict_throughput(interface, rssi_series, pdr_series),
\* the scorer, when it is asked, yielding the class `score`
Predict ==
    /\ evaluated.fn = "predict"
    /\ LET e == evaluated
           res == predict_throughput(e.rssi_series, e.pdr_series, e.score)
       IN  evaluated' = [e EXCEPT
                           !.done = TRUE,
                           !.scored = ~ColdStart(e.rssi_series,
                                                 e.pdr_series),
                           !.tput = res[1], !.label = res[2]]
    /\ UNCHANGED <<pktVars, telVars, loopVars, offVars, srcVars, call_age,
                   model_loaded, datapaths, offloader, wifiVars>>

NextPure == Classify \/ Predict

SpecPure == InitPure /\ [][NextPure]_vars

\* ------------------------------------------------------------------------
\* C22: predictor cold start: with fewer than 30 samples in either series
\* predict_throughput returns exactly (5.0 Mbps, Intermediate), whatever
\* the samples are, and the scorer is not asked.
\* ------------------------------------------------------------------------
C22_ColdStart ==
    (evaluated.fn = "predict" /\ evaluated.done
        /\ (Len(evaluated.rssi_series) < 30
               \/ Len(evaluated.pdr_series) < 30)) =>
       /\ evaluated.tput = 5000
       /\ evaluated.label = "Intermediate"
       /\ ~evaluated.scored

\* a full series of a strong signal with 29 delivery ratios
C22_Witness ==
    /\ evaluated.fn = "predict"
    /\ evaluated.done
    /\ Len(evaluated.rssi_series) = 30
    /\ Len(evaluated.pdr_series) = 29
    /\ evaluated.rssi = -60
    /\ evaluated.pdr = 100
    /\ evaluated.score = "Good"
    /\ evaluated.tput = 5000
    /\ evaluated.label = "Intermediate"

\* ------------------------------------------------------------------------
\* C23: the classifier is total, deterministic and pure and follows the
\* priority rule: for every (signal, pdr) it returns one label, Bad if
\* pdr <= 0.75 or signal <= -87, else Good if pdr >= 0.85 and signal >=
\* -75, else Intermediate; a call changes nothing of the controllers.
\* ------------------------------------------------------------------------
C23_ClassifierRule ==
    [][ evaluated.fn = "classify" =>
          LET e == evaluated'
              bad == evaluated.pdr <= 75 \/ evaluated.rssi <= -87
              good == evaluated.pdr >= 85 /\ evaluated.rssi >= -75
          IN  /\ e.done
              /\ e.label \in {"Good", "Intermediate", "Bad"}
              /\ e.label = "Bad" <=> bad
              /\ e.label = "Good" <=> (~bad /\ good)
              /\ e.label = "Intermediate" <=> (~bad /\ ~good)
              /\ evaluated.done => e.label = evaluated.label
              /\ e.rssi = evaluated.rssi /\ e.pdr = evaluated.pdr
              /\ UNCHANGED <<pktVars, telVars, loopVars, offVars, srcVars,
                             call_age, model_loaded, datapaths, offloader,
                             wifiVars>>
      ]_vars

\* a perfect delivery ratio at the bad signal threshold: Bad
C23_Witness ==
    /\ evaluated.fn = "classify"
    /\ evaluated.done
    /\ evaluated.rssi = -87
    /\ evaluated.pdr = 100
    /\ evaluated.label = "Bad"

\* ------------------------------------------------------------------------
\* C24: classifier boundary values: pdr = 0.88 with signal = -74 dBm is
\* Good, and pdr = 0.76 is Bad whatever the signal.
\* ------------------------------------------------------------------------
C24_ClassifierBoundaries ==
    (evaluated.fn = "classify" /\ evaluated.done) =>
       /\ (evaluated.pdr = 88 /\ evaluated.rssi = -74) =>
             evaluated.label = "Good"
       /\ evaluated.pdr = 76 => evaluated.label = "Bad"

\* ------------------------------------------------------------------------
\* C25: post-adjustment of the predictor on the last raw sample of a
\* warmed-up window: with signal >= -90 and pdr >= 0.75 the scorer's
\* throughput is multiplied by 1.2 and the label is Good if also signal >=
\* -74 and pdr >= 0.88 and the scorer's label otherwise; else the
\* throughput is multiplied by 0.7 and the label is Bad (the throughput
\* clamped to [1, 20] Mbps).
\* ------------------------------------------------------------------------
C25_PostAdjustment ==
    (evaluated.fn = "predict" /\ evaluated.done /\ evaluated.scored) =>
       LET e == evaluated
           base == IF e.score = "Fallback"
                   THEN fallback_prediction(e.rssi, e.pdr)
                   ELSE model_prediction(e.score)
           clamp(x) == IF x < 1000 THEN 1000 ELSE IF x > 20000 THEN 20000
                       ELSE x
       IN  IF e.rssi >= -90 /\ e.pdr >= 75
           THEN /\ e.tput = clamp((base[1] * 12) \div 10)
                /\ e.label = IF e.rssi >= -74 /\ e.pdr >= 88 THEN "Good"
                             ELSE base[2]
           ELSE /\ e.tput = clamp((base[1] * 7) \div 10)
                /\ e.label = "Bad"

\* ------------------------------------------------------------------------
\* C21: flow progress is per flow: a flow gets its own remaining volume,
\* the whole volume, when it is first observed, and a control cycle
\* changes the remaining volume of one flow only.
\* ------------------------------------------------------------------------
\* The remaining volume of a monitored flow: the controller keeps one
\* V_remaining, which stands for every flow it monitors
NoVolume == -1
FlowRemaining(f) == IF f \in monitored_flows THEN V_remaining ELSE NoVolume

C21_PerFlowProgress ==
    [][ /\ \A f \in Flows :
              (f \notin monitored_flows /\ f \in monitored_flows') =>
                 FlowRemaining(f)' = V_total
        /\ \A f, g \in Flows :
              (/\ f \in monitored_flows /\ g \in monitored_flows
               /\ FlowRemaining(f)' # FlowRemaining(f)
               /\ FlowRemaining(g)' # FlowRemaining(g)) => f = g
      ]_vars

\* ------------------------------------------------------------------------
\* C28: the negotiation session of the UE on the offloading controller is
\* made at the first offload attempt, is never removed, and after a
\* successful negotiation holds the granted bandwidth, the allocated_bw of
\* the answer.
\* ------------------------------------------------------------------------
\* self.authenticated_ues[ue_mac] as authenticate_ue writes it (auth_time
\* left out); nothing else writes to it
NoSession == [status |-> "none"]
Session(mac) ==
    IF mac \in authenticated_ues
    THEN [quota_mb |-> 1000, used_mb |-> 0, status |-> "active"]
    ELSE NoSession

\* 'requested_bw': 5.0 of the payload of _exchange_credentials
LteRequestedBw == 5000

C28_SessionGrant ==
    [][ /\ authenticated_ues \subseteq authenticated_ues'
        /\ (loop_pc = "load" /\ loop_pc' = "neg") =>
              Session(UeMac)'.status = "active"
        /\ (loop_pc = "neg" /\ last_record'.neg = "ok") =>
              /\ "granted_bw" \in DOMAIN Session(UeMac)'
              /\ Session(UeMac)'.granted_bw =
                    allocated_bw(LteRequestedBw, current_load)
      ]_vars

\* ------------------------------------------------------------------------
\* Specification of the telemetry ingestion alone
\* ------------------------------------------------------------------------
NextTelemetry ==
    \E l \in TelLteSamples, w \in WifiSamples :
       PostMetrics(l, w, MaxTelChanges)

SpecTelemetry == Init /\ [][NextTelemetry]_vars

\* ------------------------------------------------------------------------
\* C26: each metric window is a ring buffer of 30 samples: a post adds its
\* sample at the end, the window grows by one up to 30 and never beyond,
\* and at a full window the oldest sample is dropped and the others keep
\* their order.
\* ------------------------------------------------------------------------
C26_RingBuffer ==
    [][ LET after(win, x) ==
               (IF Len(win) < 30 THEN win
                ELSE [i \in 1..29 |-> win[i + 1]]) \o <<x>>
            n == Len(lte_rssi_window)
        IN  /\ lte_rssi_window' = after(lte_rssi_window, current_rssi_lte')
            /\ lte_pdr_window' = after(lte_pdr_window, current_pdr_lte')
            /\ wifi_rssi_window' =
                  after(wifi_rssi_window, current_rssi_wifi')
            /\ wifi_pdr_window' = after(wifi_pdr_window, current_pdr_wifi')
            /\ Len(lte_rssi_window') = (IF n + 1 < 30 THEN n + 1 ELSE 30)
            /\ Len(lte_pdr_window') = Len(lte_rssi_window')
            /\ Len(wifi_rssi_window') = Len(lte_rssi_window')
            /\ Len(wifi_pdr_window') = Len(lte_rssi_window')
      ]_vars

\* two kinds of samples were posted and the window holds 30 of the second
\* kind: every sample of the first kind has been dropped
C26_Witness ==
    /\ changes = 2
    /\ Len(lte_pdr_window) = 30
    /\ \A i \in 1..30 : lte_pdr_window[i] = 93 /\ lte_rssi_window[i] = -65

\* ------------------------------------------------------------------------
\* C27: telemetry ingestion clamps its inputs: every delivery ratio in a
\* window or in the current metrics lies in [0, 1] and every signal
\* strength in [-100, -40] dBm.
\* ------------------------------------------------------------------------
C27_TelemetryClamped ==
    LET pdr_ok(x) == x >= 0 /\ x <= 100
        rssi_ok(x) == x >= -100 /\ x <= -40
    IN  /\ pdr_ok(current_pdr_lte) /\ pdr_ok(current_pdr_wifi)
        /\ rssi_ok(current_rssi_lte) /\ rssi_ok(current_rssi_wifi)
        /\ \A i \in DOMAIN lte_pdr_window : pdr_ok(lte_pdr_window[i])
        /\ \A i \in DOMAIN wifi_pdr_window : pdr_ok(wifi_pdr_window[i])
        /\ \A i \in DOMAIN lte_rssi_window : rssi_ok(lte_rssi_window[i])
        /\ \A i \in DOMAIN wifi_rssi_window : rssi_ok(wifi_rssi_window[i])

\* ------------------------------------------------------------------------
\* C31: the bucket weights sent to the switch are those of the Decision
\* Engine's alpha, the WiFi share discounted by the WiFi load:
\* wifi_weight = max(1, round(alpha * 100)) and
\* lte_weight = max(1, round((1 - alpha) * 100)).
\* ------------------------------------------------------------------------
C31_WeightsFromAlpha ==
    \A i \in DOMAIN off_tx :
        off_tx[i].cmd = "add" =>
           LET alpha == Alpha(off_call.args[1], off_call.args[2],
                              off_call.args[3])
           IN  /\ off_tx[i].wifi = wifi_weight(alpha)
               /\ off_tx[i].lte = lte_weight(alpha)

\* ------------------------------------------------------------------------
\* Specification of the decision of one cycle for every load the query can
\* return
\* ------------------------------------------------------------------------
NextQuery ==
    \/ CycleBegin
    \/ \E a \in LoadAnswers, load \in QueryLoads, sl \in ScorerOut,
          sw \in CtlScores : LoadReply(a, load, sl, sw)
    \/ \E reply \in ConfirmReplies, f \in Flows, fid \in FlowletIds,
          tx_ok \in BOOLEAN : ConfirmReply(reply, f, fid, tx_ok)

SpecQuery == InitDecide /\ [][NextQuery]_vars

\* ------------------------------------------------------------------------
\* C32: the alpha of an offload computation is
\* (pred_wifi / (pred_lte + pred_wifi)) * (1 - wifi_load) clamped to [0, 1],
\* and every alpha recorded or handed to the installer lies in [0, 1],
\* whatever load the query returned (loads outside [0, 1] included).
\* ------------------------------------------------------------------------
C32_AlphaClamped ==
    LET in01(a) == a[2] > 0 /\ 0 <= a[1] /\ a[1] <= a[2]
        n == cyc.pred_wifi * (100 - cyc.wifi_load)
        d == (cyc.pred_lte + cyc.pred_wifi) * 100
    IN  /\ in01(cyc.alpha)
        /\ in01(last_record.alpha)
        /\ loop_pc = "neg" =>
              /\ d > 0
              /\ n <= 0 => cyc.alpha[1] = 0
              /\ n >= d => cyc.alpha[1] = cyc.alpha[2]
              /\ (0 < n /\ n < d) => cyc.alpha = <<n, d>>

\* a load of -0.5 whose product exceeds 1, handed on as alpha = 1
C32_Witness ==
    /\ CycleEnded
    /\ last_record.outcome = "offloaded"
    /\ last_record.wifi_load = -50
    /\ last_record.alpha[1] = last_record.alpha[2]

\* ------------------------------------------------------------------------
\* C33: when the model-backed scorer raises an error during a prediction
\* (or was not loaded at construction), predict_throughput returns a
\* result all the same: the one the threshold heuristic on the most recent
\* sample gives, which is what a predictor made with the heuristic scorer
\* returns for the same series.
\* ------------------------------------------------------------------------
C33_FallbackOnError ==
    LET e == evaluated
        h == fallback_prediction(e.rssi, e.pdr)[1]
    IN  (e.fn = "predict" /\ e.done /\ e.score \in {"Raises", "Fallback"}) =>
           /\ e.label \in {"Bad", "Intermediate", "Good"}
           /\ <<e.tput, e.label>> =
                 predict_throughput(e.rssi_series, e.pdr_series, "Fallback")
           /\ e.scored =>
                 e.tput \in {(h * 12) \div 10, h, (h * 7) \div 10}

\* the model raised on a warmed-up series whose last sample is that of a
\* bad link: the heuristic's 2.0 Mbps, shrunk to 1.4
C33_Witness ==
    /\ evaluated.fn = "predict" /\ evaluated.done
    /\ evaluated.score = "Raises"
    /\ evaluated.scored
    /\ evaluated.rssi = -91
    /\ evaluated.tput = 1400

\* ------------------------------------------------------------------------
\* Specification of the control loop from warm-up to completion: the flow
\* is detected, the windows hold 30 samples, the 150 MB are still to go and
\* the loop sleeps; the loop thread is scheduled (hub.sleep returns, the
\* GET and the POST return or time out after 2 s)
\* ------------------------------------------------------------------------
InitLive == InitWarm({V_total}, "sleep", LiveLteSamples)

NextLive == NextDecide

SpecLive == InitLive /\ [][NextLive]_vars /\ WF_vars(NextLive)

C34_VolumeMonotone ==
    /\ 0 <= V_remaining /\ V_remaining <= V_total
    /\ [][ /\ V_remaining' <= V_remaining
           /\ 0 <= V_remaining' /\ V_remaining' <= V_total ]_vars

\* the last cycle found less left than it accounts, with both flows seen
C34_Witness ==
    /\ V_remaining = 0
    /\ monitored_flows = Flows
    /\ last_record.V_before > 0
    /\ last_record.V_before < transmitted_MB(last_record.lte_tput)

\* ------------------------------------------------------------------------
\* C36: the four metric windows have the same length in every state the
\* control cycle can observe, each post appending one sample to each of
\* them; so in a cycle that passed the warm-up check on the LTE signal
\* window neither call of the predictor takes the cold-start branch.
\* ------------------------------------------------------------------------
C36_WindowsAligned ==
    /\ Len(lte_pdr_window) = Len(lte_rssi_window)
    /\ Len(wifi_rssi_window) = Len(lte_rssi_window)
    /\ Len(wifi_pdr_window) = Len(lte_rssi_window)
    /\ loop_pc \in {"load", "neg"} =>
          /\ ~ColdStart(lte_rssi_window, lte_pdr_window)
          /\ ~ColdStart(wifi_rssi_window, wifi_pdr_window)

\* a warmed-up cycle at its load query, before the predictor is called,
\* with the four windows full
C36_Witness ==
    /\ loop_pc = "load"
    /\ Len(lte_rssi_window) = 30
    /\ Len(wifi_pdr_window) = 30
    /\ lte_pdr_window[30] = 55

\* ------------------------------------------------------------------------
\* C37: for a warmed-up window the label predict_throughput returns is a
\* function of the most recent sample alone: Good at signal >= -74 and
\* pdr >= 0.88, Bad under signal -90 or pdr 0.75, Intermediate between,
\* whatever the earlier samples and whatever class the scorer gives; so two
\* calls whose windows end with the same sample return the same label.
\* ------------------------------------------------------------------------
C37_LabelFromLastSample ==
    LET e == evaluated
        label_of(rssi, pdr) ==
            IF rssi >= -74 /\ pdr >= 88 THEN "Good"
            ELSE IF rssi < -90 \/ pdr < 75 THEN "Bad"
                 ELSE "Intermediate"
    IN  (e.fn = "predict" /\ e.done /\ e.scored) =>
           /\ e.label = label_of(e.rssi_series[30], e.pdr_series[30])
           /\ \A s \in PureScores, old \in PureOlds :
                 predict_throughput(Series(30, old[1], e.rssi),
                                    Series(30, old[2], e.pdr), s)[2]
                    = e.label

\* the model says Good after 29 samples of a perfect link, the last sample
\* is between the thresholds, and the label is Intermediate
C37_Witness ==
    /\ evaluated.fn = "predict" /\ evaluated.done /\ evaluated.scored
    /\ evaluated.score = "Good"
    /\ evaluated.rssi_series[1] = -40
    /\ evaluated.rssi = -80 /\ evaluated.pdr = 80
    /\ evaluated.label = "Intermediate"

\* ------------------------------------------------------------------------
\* Specification of the WiFi controller answering any request, those with
\* a requested_bw that is no number included
\* ------------------------------------------------------------------------
NextConfirm ==
    \/ \E wf \in BOOLEAN, m \in WifiMacs, t \in WifiTokens,
          bw \in RequestedBw \cup {NoBw} : OffloadConfirm(wf, m, t, bw)
    \/ \E body \in [WifiFlows -> ByteCounts \cup {NoStat}],
          td \in StatsDeltas : FlowStatsReply(body, td)

SpecConfirm == Init /\ [][NextConfirm]_vars

\* ------------------------------------------------------------------------
\* C38: no grant without valid credentials: offload_confirm answers with
\* success only a request whose MAC is a known UE and whose token is that
\* UE's valid token; the authenticated UEs are always such MACs with their
\* token; and a request that is rejected or malformed (answered without
\* success) leaves the authenticated UEs and the load as they were.
\* ------------------------------------------------------------------------
C38_NoGrantWithoutCredentials ==
    [][ confirms' # confirms =>
          LET r == wifi_resp'
          IN  /\ r.success =>
                    /\ valid_tokens(r.ue_mac) # NoToken
                    /\ r.auth_token = valid_tokens(r.ue_mac)
              /\ \A m \in WifiMacs :
                    wifi_authenticated_ues'[m].token # NoToken =>
                       wifi_authenticated_ues'[m].token = valid_tokens(m)
              /\ ~r.success =>
                    /\ wifi_authenticated_ues' = wifi_authenticated_ues
                    /\ current_load' = current_load
                    /\ total_throughput_mbps' = total_throughput_mbps
      ]_vars

\* ------------------------------------------------------------------------
\* C39: the decision records agree with what was done: a record with
\* alpha > 0, V_WiFi > 0 or a flowlet id is written only by a cycle whose
\* negotiation was answered with success and whose table transaction
\* reported success (the cycle went on to send the flow rule); the record
\* of every other cycle (LTE only, abandoned, negotiation or transaction
\* failed) has alpha = 0, V_WiFi = 0 and no flowlet id.
\* ------------------------------------------------------------------------
C39_RecordsConsistent ==
    CycleEnded =>
       LET r == last_record
           split == \/ r.alpha[1] > 0
                    \/ r.V_WiFi > 0
                    \/ r.flowlet_id # NoFlowlet
           performed == /\ r.decision = "OFFLOAD"
                        /\ cyc_neg = 1 /\ r.neg = "ok"
                        /\ \E i \in DOMAIN cyc_tx : cyc_tx[i].cmd = "flow"
                        /\ group_installed
       IN  /\ split => performed
           /\ ~performed => /\ r.alpha = AlphaZero
                            /\ r.V_WiFi = 0
                            /\ r.flowlet_id = NoFlowlet

\* a cycle that wanted WiFi volume, was granted it and failed at the table
C39_Witness ==
    /\ CycleEnded
    /\ last_record.neg = "ok"
    /\ last_record.want_wifi > 0
    /\ \E i \in DOMAIN cyc_tx : cyc_tx[i].cmd \in {"add", "modify"}
    /\ last_record.flowlet_id = NoFlowlet
    /\ last_record.V_WiFi = 0

\* ------------------------------------------------------------------------
\* C40: the flow rule to group 1 never points to a missing group: the
\* rule is sent only after the group install of the same call was sent
\* and succeeded, and in no state does the switch hold the rule while
\* group 1 is absent, a later update of the weights included.
\* ------------------------------------------------------------------------
C40_RuleAfterGroup ==
    /\ dp_rule => dp_group # NoGroup
    /\ \A i \in DOMAIN off_tx :
          (off_tx[i].cmd = "flow" /\ off_tx[i].sent) =>
             \E j \in 1..(i - 1) :
                off_tx[j].cmd = "add" /\ off_tx[j].sent

=============================================================================
